---------------------------- MODULE Spec2Model ----------------------------
(***************************************************************************)
(* Selector Threshold (src/core.py): the pre-execution gate that scores a  *)
(* candidate with the weighted sum Sigma and returns APPLY, ASK or REFUSE. *)
(*                                                                         *)
(* Numbers.  The code computes on Python floats; the model computes on     *)
(* exact fixed-point integers.  A signal value v is held as v * One, a     *)
(* weight w as w * WeightScale, and Sigma and the threshold as             *)
(* value * SigmaOne with SigmaOne = One * WeightScale.  One is divisible   *)
(* by every validator count the model uses, so passed / len is exact.      *)
(* Rounded values (round(x, 3), f"{x:.3f}") are integers in thousandths.   *)
(*                                                                         *)
(* Optional arguments.  A Python argument that may be None is a sequence:  *)
(* <<>> is None, <<v>> is the supplied value v.                            *)
(***************************************************************************)
EXTENDS Integers, Sequences, FiniteSets, TLC

VARIABLES
    SIGNAL_WEIGHTS,        \* module-level weight table
    environ,               \* os.environ, the three ABLATE_* variables
    threshold,             \* self.threshold (tau)
    task_id,               \* self.task_id
    task_card,             \* self.task_card
    ablate_no_preview,     \* self.ablate_no_preview
    ablate_no_validators,  \* self.ablate_no_validators
    ablate_no_gate,        \* self.ablate_no_gate
    last_signals,          \* self._last_signals (empty while the attribute is unset)
    sink,                  \* the records appended to self.log_file, in order
    sinkOk,                \* whether an append to self.log_file succeeds
    call,                  \* the arguments of the call of preview_apply_gate made
    last_sigma,            \* the local sigma of that call (core.py 84)
    ret,                   \* what that call gave back to its caller
    op,                    \* the operation performed last
    baseline,              \* what the last call of run_baseline gave back
    baseline_call,         \* the arguments of that call of run_baseline
    ask_msg,               \* the last direct call of _generate_ask_message
    threads                \* the calls of preview_apply_gate in flight

vars == <<SIGNAL_WEIGHTS, environ, threshold, task_id, task_card,
          ablate_no_preview, ablate_no_validators, ablate_no_gate,
          last_signals, sink, sinkOk, call, last_sigma, ret, op, baseline,
          baseline_call, ask_msg, threads>>

--------------------------------------------------------------------------
(* Bounds of the model *)

MaxValidators == 3
MaxMissing == 3
MaxRecords == 2

--------------------------------------------------------------------------
(* Fixed-point arithmetic *)

One == 60 * 1000
WeightScale == 10 * 10
SigmaOne == One * WeightScale

\* x / d rounded to the nearest integer, ties to even (Python's round and
\* format on an exactly representable value).
RoundDiv(x, d) ==
    LET q == x \div d
        r == x % d
    IN  IF 2 * r < d THEN q
        ELSE IF 2 * r > d THEN q + 1
        ELSE IF q % 2 = 0 THEN q ELSE q + 1

\* round(v, 3) of a signal value, in thousandths
RoundSignal(v) == RoundDiv(v, One \div 1000)

\* round(float(sigma), 3) and f"{sigma:.3f}", in thousandths
RoundSigma(s) == RoundDiv(s, SigmaOne \div 1000)

Max(a, b) == IF a >= b THEN a ELSE b
Min(a, b) == IF a <= b THEN a ELSE b

--------------------------------------------------------------------------
(* Optional values *)

None == <<>>
Some(v) == <<v>>
IsNone(o) == o = <<>>
Value(o) == o[1]

--------------------------------------------------------------------------
(* Weights (core.py 29-36), as w * WeightScale *)

\* variant: positive weights that sum to 0.95
WeightTable_heavier ==
    [validator_pass_rate |-> 45,
     uncertainty_margin |-> 20,
     reversibility |-> 15,
     consistency_across_modalities |-> 15,
     policy_flags |-> -10,
     diff_risk |-> -10]

WeightTable ==
    [validator_pass_rate |-> 35,
     uncertainty_margin |-> 20,
     reversibility |-> 15,
     consistency_across_modalities |-> 15,
     policy_flags |-> -10,
     diff_risk |-> -10]

SignalNames ==
    {"validator_pass_rate", "uncertainty_margin", "reversibility",
     "consistency_across_modalities", "policy_flags", "diff_risk"}

\* variant: an ASK range that starts at 0.40
AskLow_040 == (40 * SigmaOne) \div 100

\* 0.45, the lower end of the ASK range (core.py 103)
AskLow == (45 * SigmaOne) \div 100

\* len(...) < 1000 (core.py 177, 180)
SmallLimit == 1000

EmptyDict == [n \in {} |-> 0]

\* variant: the goal of the schema task is kept
EmptyTaskCard_goal_kept ==
    [goal |-> {"json", "schema"}, rules |-> <<>>, facts |-> <<>>,
     plan |-> <<>>, log |-> <<>>]

EmptyTaskCard ==
    [goal |-> {}, rules |-> <<>>, facts |-> <<>>, plan |-> <<>>, log |-> <<>>]

--------------------------------------------------------------------------
(* Signal Extractor *)

\* a length of exactly the limit counted as small
is_small_reversible_inclusive(candidate) ==
    IF candidate.kind = "str" THEN candidate.len <= SmallLimit
    ELSE IF candidate.kind = "dict" THEN candidate.len <= SmallLimit
    ELSE TRUE

\* _is_small_reversible (core.py 174-181).  A candidate is [kind, len]:
\* kind "str" with len = len(candidate), kind "dict" with len =
\* len(str(candidate)), any other kind.
is_small_reversible(candidate) ==
    IF candidate.kind = "str" THEN candidate.len < SmallLimit
    ELSE IF candidate.kind = "dict" THEN candidate.len < SmallLimit
    ELSE TRUE

\* A validator is given by what it does on the candidate: "pass" (returns a
\* true value), "fail" (returns a false value) or "raise".
RECURSIVE CountPassed(_)
CountPassed(validators) ==
    IF validators = <<>> THEN 0
    ELSE (IF Head(validators) = "pass" THEN 1 ELSE 0) + CountPassed(Tail(validators))

\* sum(1 for v in validators if v(candidate)) (core.py 127): no handler
\* surrounds v(candidate), so an exception of a validator leaves the sum.
validators_raise(validators) ==
    \E i \in 1..Len(validators) : validators[i] = "raise"

\* variant: the critical flag is ignored
validator_pass_rate_fraction(validators, critical_validators, no_validators) ==
    IF no_validators THEN 0
    ELSE IF validators /= <<>> THEN
        (CountPassed(validators) * One) \div Len(validators)
    ELSE One \div 2

\* core.py 122-135
validator_pass_rate(validators, critical_validators, no_validators) ==
    IF no_validators THEN 0
    ELSE IF validators /= <<>> THEN
        LET passed == CountPassed(validators) IN
        IF critical_validators
        THEN (IF passed = Len(validators) THEN One ELSE 0)
        ELSE (passed * One) \div Len(validators)
    ELSE One \div 2

\* variant: `x or d`, which drops a supplied 0.0
OrDefault_truthy(override, default) ==
    IF ~IsNone(override) /\ Value(override) /= 0 THEN Value(override) ELSE default

\* `x if x is not None else d` (core.py 138, 141, 148, 155, 158)
OrDefault(override, default) ==
    IF ~IsNone(override) THEN Value(override) ELSE default

\* variant: the uncertainty_margin override is not read
calculate_signals_default_margin(a, no_validators) ==
    [validator_pass_rate |->
        validator_pass_rate(a.validators, a.critical_validators, no_validators),
     uncertainty_margin |-> One \div 2,
     reversibility |->
        OrDefault(a.reversibility,
                  IF is_small_reversible(a.candidate) THEN One ELSE One \div 2),
     consistency_across_modalities |->
        OrDefault(a.consistency_across_modalities, One),
     policy_flags |-> OrDefault(a.policy_flags, 0),
     diff_risk |->
        OrDefault(a.diff_risk,
                  IF is_small_reversible(a.candidate) THEN 0 ELSE (3 * One) \div 10)]

\* _calculate_signals (core.py 115-164), for validators that do not raise
calculate_signals(a, no_validators) ==
    [validator_pass_rate |->
        validator_pass_rate(a.validators, a.critical_validators, no_validators),
     uncertainty_margin |-> OrDefault(a.uncertainty_margin, One \div 2),
     reversibility |->
        OrDefault(a.reversibility,
                  IF is_small_reversible(a.candidate) THEN One ELSE One \div 2),
     consistency_across_modalities |->
        OrDefault(a.consistency_across_modalities, One),
     policy_flags |-> OrDefault(a.policy_flags, 0),
     diff_risk |->
        OrDefault(a.diff_risk,
                  IF is_small_reversible(a.candidate) THEN 0 ELSE (3 * One) \div 10)]

\* whether _calculate_signals leaves by an exception: validators are only
\* called when the skip_validators ablation is off (core.py 123-127)
calculate_signals_raises(a, no_validators) ==
    ~no_validators /\ validators_raise(a.validators)

--------------------------------------------------------------------------
(* Sigma Aggregator *)

\* SIGNAL_WEIGHTS.get(signal_name, 0.0) (core.py 170)
WeightGet(weights, name) ==
    IF name \in DOMAIN weights THEN weights[name] ELSE 0

RECURSIVE WeightedSum(_, _, _)
WeightedSum(weights, signals, names) ==
    IF names = {} THEN 0
    ELSE LET n == CHOOSE x \in names : TRUE
         IN  WeightGet(weights, n) * signals[n]
               + WeightedSum(weights, signals, names \ {n})

\* variant: no lower clamp
Clamp_upper_only(s) == Min(SigmaOne, s)

\* max(0.0, min(1.0, sigma)) (core.py 172)
Clamp(s) == Max(0, Min(SigmaOne, s))

\* _compute_sigma (core.py 166-172)
compute_sigma(weights, signals) ==
    Clamp(WeightedSum(weights, signals, DOMAIN signals))

--------------------------------------------------------------------------
(* Decision Policy *)

APPLY == "APPLY"     \* the call returns (candidate, True)
ASK == "ASK"         \* the call returns (None, "ASK")
REFUSE == "REFUSE"   \* the call returns (None, False)

\* variant: only the truth value of missing_fields is tested
one_or_two_missing_any(missing_fields) ==
    /\ ~IsNone(missing_fields)
    /\ Value(missing_fields) /= <<>>

\* `missing_fields and 1 <= len(missing_fields) <= 2` (core.py 103)
one_or_two_missing(missing_fields) ==
    /\ ~IsNone(missing_fields)
    /\ Value(missing_fields) /= <<>>
    /\ 1 <= Len(Value(missing_fields))
    /\ Len(Value(missing_fields)) <= 2

\* variant: the policy flag must exceed 1.0
hard_override_strict(signals) ==
    /\ signals.policy_flags > One
    /\ signals.reversibility = 0

\* signals.get('policy_flags', 0.0) >= 1.0 and
\* signals.get('reversibility', 1.0) == 0.0 (core.py 93)
hard_override(signals) ==
    /\ signals.policy_flags >= One
    /\ signals.reversibility = 0

\* variant: APPLY needs sigma strictly above the threshold
decide_strictly_above(signals, sigma, tau, missing_fields) ==
    IF hard_override(signals) THEN "policy_refuse"
    ELSE IF sigma > tau THEN "apply"
    ELSE IF AskLow <= sigma /\ sigma < tau /\ one_or_two_missing(missing_fields)
         THEN "ask"
    ELSE "refuse"

\* the branch taken by core.py 93-113
decide(signals, sigma, tau, missing_fields) ==
    IF hard_override(signals) THEN "policy_refuse"
    ELSE IF sigma >= tau THEN "apply"
    ELSE IF AskLow <= sigma /\ sigma < tau /\ one_or_two_missing(missing_fields)
         THEN "ask"
    ELSE "refuse"

--------------------------------------------------------------------------
(* Ask Message Builder *)

RECURSIVE JoinFields(_)
\* variant: only the first field name
JoinFields_first(fields) ==
    IF fields = <<>> THEN <<>> ELSE <<Head(fields)[1]>>

\* ", ".join(fld for fld, _ in missing_fields) (core.py 196)
JoinFields(fields) ==
    IF fields = <<>> THEN <<>>
    ELSE IF Len(fields) = 1 THEN <<Head(fields)[1]>>
    ELSE <<Head(fields)[1], ", ">> \o JoinFields(Tail(fields))

\* variant: the fallback template of core.py 196-197 for every length
generate_ask_message_listed(missing_fields) ==
    <<"I need ">> \o JoinFields(missing_fields) \o <<" to proceed safely.">>

\* _generate_ask_message (core.py 183-197).  A missing field is the pair
\* <<field, format_hint>>; the message is the sequence of its pieces.
generate_ask_message(missing_fields) ==
    IF Len(missing_fields) = 1 THEN
        <<"I need ", missing_fields[1][1], " to proceed safely. Provide ",
          missing_fields[1][2], ".">>
    ELSE IF Len(missing_fields) = 2 THEN
        <<"I need ", missing_fields[1][1], " (", missing_fields[1][2], ")",
          " and ", missing_fields[2][1], " (", missing_fields[2][2], ")",
          " to proceed safely.">>
    ELSE <<"I need ">> \o JoinFields(missing_fields) \o <<" to proceed safely.">>

--------------------------------------------------------------------------
(* Audit Logger *)

\* An explanation or a lesson is its template, the numbers formatted into
\* it and, for ASK, the clarification message.
Text(template, sigma, tau, ask) ==
    [text |-> template, sigma |-> sigma, threshold |-> tau, ask |-> ask]

\* signals.get(name, 1.0) < 1.0 on the rounded signals (core.py 209-210,
\* 218-219, 227-228)
BelowOne(signals, name) ==
    (IF name \in DOMAIN signals THEN signals[name] ELSE 1000) < 1000

\* _generate_playbook_lesson (core.py 199-240).  goal is the set of the
\* keywords that occur in task_card['goal'].lower().
generate_playbook_lesson(phase, signals, card, tau) ==
    LET goal == card.goal
        Fixed(t) == Text(t, None, None, <<>>)
    IN
    IF "json" \in goal \/ "schema" \in goal THEN
        IF phase = "ask" THEN Fixed("If date missing, ASK for ISO 8601 before apply.")
        ELSE IF phase = "refuse" THEN
            IF BelowOne(signals, "validator_pass_rate")
            THEN Fixed("If required fields missing or invalid format, REFUSE and request correction.")
            ELSE Fixed("If schema validation fails, REFUSE and request valid JSON.")
        ELSE Fixed("If all required fields present and valid, APPLY.")
    ELSE IF "medical" \in goal \/ "dose" \in goal \/ "drug" \in goal THEN
        IF phase = "refuse" THEN
            IF BelowOne(signals, "validator_pass_rate")
            THEN Fixed("If dose > mg/kg*max, REFUSE and propose physician review.")
            ELSE Fixed("If safety checks fail, REFUSE and suggest safe alternative.")
        ELSE Fixed("If all safety validators pass, APPLY.")
    ELSE IF "multimodal" \in goal \/ "image" \in goal \/ "description" \in goal THEN
        IF phase = "refuse" THEN
            IF BelowOne(signals, "consistency_across_modalities")
            THEN Fixed("If objects in image contradict text nouns, REFUSE and request a new caption.")
            ELSE Fixed("If description contradicts visual content, REFUSE and request accurate description.")
        ELSE Fixed("If description matches image content, APPLY.")
    ELSE IF phase = "ask" THEN
        Fixed("If sigma in [0.45, 0.6) and 1-2 fields missing, ASK for clarification.")
    ELSE IF phase = "refuse" THEN
        Text("If sigma < threshold ({threshold}), REFUSE and explain reason.",
             None, Some(tau), <<>>)
    ELSE
        Text("If sigma >= threshold ({threshold}), APPLY.", None, Some(tau), <<>>)

\* {k: round(v, 3) for k, v in self._last_signals.items()} (core.py 246)
RoundSignals(signals) ==
    [n \in DOMAIN signals |-> RoundSignal(signals[n])]

\* variant: every phase but refuse is recorded as the decision apply
log_entry_apply_unless_refuse(tid, card, signals, sigma, phase, explanation, tau) ==
    [task_id |-> tid,
     phase |-> phase,
     task_card |-> [goal |-> card.goal, rules |-> card.rules,
                    facts |-> card.facts, plan |-> card.plan],
     signals |-> RoundSignals(signals),
     sigma |-> RoundSigma(sigma),
     decision |-> IF phase = "refuse" THEN "refuse" ELSE "apply",
     explanation |-> explanation,
     playbook_lesson |->
        generate_playbook_lesson(phase, RoundSignals(signals), card, tau)]

\* the log_entry of core.py 260-276 (timestamp and elapsed_ms, which are
\* clock readings, are left out)
log_entry(tid, card, signals, sigma, phase, explanation, tau) ==
    [task_id |-> tid,
     phase |-> phase,
     task_card |-> [goal |-> card.goal, rules |-> card.rules,
                    facts |-> card.facts, plan |-> card.plan],
     signals |-> RoundSignals(signals),
     sigma |-> RoundSigma(sigma),
     decision |-> IF phase = "apply" THEN "apply" ELSE phase,
     explanation |-> explanation,
     playbook_lesson |->
        generate_playbook_lesson(phase, RoundSignals(signals), card, tau)]

\* variant: no handler, the failure of the append leaves _log_decision
log_failure_unhandled(ok) == ~ok

\* what the `except Exception: pass` of core.py 280-282 lets out of
\* _log_decision when the append fails: nothing
log_failure_propagates(ok) == FALSE

\* variant: the file is opened with mode 'w'
log_decision_truncating(log, ok, tid, card, signals, sigma, phase, explanation, tau) ==
    [sink |-> IF ok
              THEN <<log_entry(tid, card, signals, sigma, phase, explanation, tau)>>
              ELSE log,
     raised |-> log_failure_propagates(ok)]

\* _log_decision (core.py 242-282) on the sink `log`: the sink afterwards
\* and whether an exception leaves the method.  The entry is built and
\* serialised before the write, so a failed append adds nothing.
log_decision(log, ok, tid, card, signals, sigma, phase, explanation, tau) ==
    [sink |-> IF ok
              THEN Append(log, log_entry(tid, card, signals, sigma, phase,
                                         explanation, tau))
              ELSE log,
     raised |-> log_failure_propagates(ok)]

--------------------------------------------------------------------------
(* The gate *)

NoReturn == [status |-> "none", result |-> None, decision |-> "none"]
Raised == [status |-> "raised", result |-> None, decision |-> "none"]
Returned(result, decision) ==
    [status |-> "returned", result |-> result, decision |-> decision]

\* The calls of preview_apply_gate in flight on the instance, one per
\* calling thread: where the call stands, its arguments, its locals
\* `signals` and `sigma`, and what it returned.
Threads == {"A", "B"}

IdleThread ==
    [pc |-> "idle", a |-> None, signals |-> EmptyDict, sigma |-> None,
     ret |-> NoReturn]

NoThreads == [t \in Threads |-> IdleThread]

\* f"Sigma: {sigma:.3f}, signals: {signals}" (core.py 87)
trace_entry(sigma, signals) == [sigma |-> RoundSigma(sigma), signals |-> signals]

\* What one run of preview_apply_gate leaves behind: the sink, the value
\* given back, self._last_signals, self.task_card and the local sigma
\* (None while core.py 84 has not been reached).
Outcome(log, r, signals, card, s) ==
    [sink |-> log, ret |-> r, last_signals |-> signals, task_card |-> card,
     sigma |-> s]

\* variant: the skipped gate leaves a trace entry as well
ablated_run_on_traced(card, a, ok) ==
    LET tc == [card EXCEPT !.log = Append(@, trace_entry(SigmaOne, last_signals))]
        lg == log_decision(sink, ok, task_id, tc, last_signals,
                           SigmaOne, "apply",
                           Text("Ablation: gate disabled", None, None, <<>>),
                           threshold)
    IN  Outcome(lg.sink,
                IF lg.raised THEN Raised ELSE Returned(Some(a.candidate), APPLY),
                last_signals, tc, None)

\* core.py 72-75: the gate is skipped; self.task_card is `card`
ablated_run_on(card, a, ok) ==
    LET lg == log_decision(sink, ok, task_id, card, last_signals,
                           SigmaOne, "apply",
                           Text("Ablation: gate disabled", None, None, <<>>),
                           threshold)
    IN  Outcome(lg.sink,
                IF lg.raised THEN Raised ELSE Returned(Some(a.candidate), APPLY),
                last_signals, card, None)

ablated_run(a, ok) == ablated_run_on(task_card, a, ok)

\* variant: the ASK explanation without the clarification message
explain_without_message(branch, sigma, tau, missing_fields) ==
    IF branch = "policy_refuse" THEN
        Text("Policy violation with irreversible action. Sigma {sigma:.3f}.",
             Some(RoundSigma(sigma)), None, <<>>)
    ELSE IF branch = "apply" THEN
        Text("Sigma above threshold", None, None, <<>>)
    ELSE IF branch = "ask" THEN
        Text("Sigma {sigma:.3f} in ASK range [0.45, {threshold}). {ask_msg}",
             Some(RoundSigma(sigma)), Some(tau), <<>>)
    ELSE
        Text("Sigma {sigma:.3f} below threshold {threshold}",
             Some(RoundSigma(sigma)), Some(tau), <<>>)

\* the explanation strings of core.py 95, 101, 106, 111
explain(branch, sigma, tau, missing_fields) ==
    IF branch = "policy_refuse" THEN
        Text("Policy violation with irreversible action. Sigma {sigma:.3f}.",
             Some(RoundSigma(sigma)), None, <<>>)
    ELSE IF branch = "apply" THEN
        Text("Sigma above threshold", None, None, <<>>)
    ELSE IF branch = "ask" THEN
        Text("Sigma {sigma:.3f} in ASK range [0.45, {threshold}). {ask_msg}",
             Some(RoundSigma(sigma)), Some(tau),
             generate_ask_message(Value(missing_fields)))
    ELSE
        Text("Sigma {sigma:.3f} below threshold {threshold}",
             Some(RoundSigma(sigma)), Some(tau), <<>>)

\* variant: ASK hands the candidate back as APPLY does
return_of_keeps_candidate(branch, candidate) ==
    IF branch = "apply" THEN Returned(Some(candidate), APPLY)
    ELSE IF branch = "ask" THEN Returned(Some(candidate), ASK)
    ELSE Returned(None, REFUSE)

\* the return statements of core.py 97, 102, 108, 113
return_of(branch, candidate) ==
    IF branch = "apply" THEN Returned(Some(candidate), APPLY)
    ELSE IF branch = "ask" THEN Returned(None, ASK)
    ELSE Returned(None, REFUSE)

\* variant: a goal that names json makes every validator critical
gated_run_on_goal_critical(tc, a, ok) ==
    LET b == [a EXCEPT !.critical_validators = @ \/ "json" \in tc.goal] IN
    IF calculate_signals_raises(b, ablate_no_validators) THEN
        Outcome(sink, Raised, last_signals, tc, None)
    ELSE
        LET signals == calculate_signals(b, ablate_no_validators)
            sigma == compute_sigma(SIGNAL_WEIGHTS, signals)
            card == [tc EXCEPT !.log = Append(@, trace_entry(sigma, signals))]
            branch == decide(signals, sigma, threshold, b.missing_fields)
            phase == IF branch = "policy_refuse" THEN "refuse" ELSE branch
            lg == log_decision(sink, ok, task_id, card, signals, sigma, phase,
                               explain(branch, sigma, threshold, b.missing_fields),
                               threshold)
        IN  Outcome(lg.sink,
                    IF lg.raised THEN Raised ELSE return_of(branch, b.candidate),
                    signals, card, Some(sigma))

\* core.py 77-113: the gate proper; self.task_card is `tc`
gated_run_on(tc, a, ok) ==
    IF calculate_signals_raises(a, ablate_no_validators) THEN
        \* the exception of the validator leaves core.py 78: nothing is
        \* stored, traced or logged
        Outcome(sink, Raised, last_signals, tc, None)
    ELSE
        LET signals == calculate_signals(a, ablate_no_validators)
            sigma == compute_sigma(SIGNAL_WEIGHTS, signals)
            card == [tc EXCEPT !.log = Append(@, trace_entry(sigma, signals))]
            branch == decide(signals, sigma, threshold, a.missing_fields)
            phase == IF branch = "policy_refuse" THEN "refuse" ELSE branch
            lg == log_decision(sink, ok, task_id, card, signals, sigma, phase,
                               explain(branch, sigma, threshold, a.missing_fields),
                               threshold)
        IN  Outcome(lg.sink,
                    IF lg.raised THEN Raised ELSE return_of(branch, a.candidate),
                    signals, card, Some(sigma))

gated_run(a, ok) == gated_run_on(task_card, a, ok)

\* preview_apply_gate (core.py 56-113) on an instance whose task card is
\* `card`
gate_run_on(card, a, ok) ==
    IF ablate_no_gate THEN ablated_run_on(card, a, ok)
    ELSE gated_run_on(card, a, ok)

\* variant: the skip_gate switch is not honoured
gate_run_always_gated(a, ok) == gated_run(a, ok)

\* preview_apply_gate (core.py 56-113) with the arguments a, on a sink whose
\* append succeeds iff ok
gate_run(a, ok) ==
    IF ablate_no_gate THEN ablated_run(a, ok) ELSE gated_run(a, ok)

\* a call of preview_apply_gate
preview_apply_gate(a) ==
    LET out == gate_run(a, sinkOk) IN
    /\ call' = Some(a)
    /\ sink' = out.sink
    /\ ret' = out.ret
    /\ last_signals' = out.last_signals
    /\ task_card' = out.task_card
    /\ last_sigma' = out.sigma
    /\ op' = "preview_apply_gate"
    /\ UNCHANGED <<SIGNAL_WEIGHTS, environ, threshold, task_id, sinkOk,
                   ablate_no_preview, ablate_no_validators, ablate_no_gate,
                   baseline, baseline_call, ask_msg, threads>>

--------------------------------------------------------------------------
(* The inputs of the model *)

Outcomes == {"pass", "fail", "raise"}

ValidatorLists == UNION {[1..n -> Outcomes] : n \in 0..MaxValidators}

FieldPool ==
    <<<<"plan", "string">>, <<"date", "YYYY-MM-DD">>,
      <<"dose", "mg">>, <<"unit", "text">>>>

MissingList(n) == [i \in 1..n |-> FieldPool[((i - 1) % Len(FieldPool)) + 1]]

\* missing_fields: not supplied, or a list of 0..MaxMissing pairs
MissingSpace == {None} \cup {Some(MissingList(n)) : n \in 0..MaxMissing}

Candidates == {[kind |-> "str", len |-> 999], [kind |-> "dict", len |-> 1000]}

Opt(values) == {None} \cup {Some(v) : v \in values}

ArgSpace ==
    [candidate : Candidates,
     validators : ValidatorLists,
     uncertainty_margin : Opt({One}),
     reversibility : Opt({0}),
     consistency_across_modalities : Opt({0}),
     policy_flags : Opt({One, 2 * One}),
     diff_risk : Opt({0}),
     missing_fields : MissingSpace,
     critical_validators : BOOLEAN]

Thresholds == {(50 * SigmaOne) \div 100, (60 * SigmaOne) \div 100}

EnvNames == {"ABLATE_NO_PREVIEW", "ABLATE_NO_VALIDATORS", "ABLATE_NO_GATE"}

\* os.getenv(name, default) (core.py 52-54)
getenv(env, name, default) ==
    IF IsNone(env[name]) THEN default ELSE Value(env[name])

--------------------------------------------------------------------------
(* Specification: one gate instance, freshly constructed, and one call *)

\* The environments the instance is constructed in.  ABLATE_NO_PREVIEW is
\* left unset: core.py reads self.ablate_no_preview nowhere.
Environments ==
    {e \in [EnvNames -> Opt({"1"})] : IsNone(e["ABLATE_NO_PREVIEW"])}

\* __init__ (core.py 40-54) with threshold tau and no task_id
Init ==
    /\ SIGNAL_WEIGHTS = WeightTable
    /\ environ \in Environments
    /\ threshold \in Thresholds
    /\ task_id = "uuid-1"
    /\ task_card = EmptyTaskCard
    /\ ablate_no_preview = (getenv(environ, "ABLATE_NO_PREVIEW", "0") = "1")
    /\ ablate_no_validators = (getenv(environ, "ABLATE_NO_VALIDATORS", "0") = "1")
    /\ ablate_no_gate = (getenv(environ, "ABLATE_NO_GATE", "0") = "1")
    /\ last_signals = EmptyDict
    /\ sink = <<>>
    /\ sinkOk \in BOOLEAN
    /\ call = None
    /\ last_sigma = None
    /\ ret = NoReturn
    /\ op = "__init__"
    /\ baseline = None
    /\ baseline_call = None
    /\ ask_msg = None
    /\ threads = NoThreads

Next == IsNone(call) /\ \E a \in ArgSpace : preview_apply_gate(a)

Spec == Init /\ [][Next]_vars

--------------------------------------------------------------------------
(* The other operations on a gate instance and around it *)

\* variant: reset reads the environment again, as __init__ does
reset_rereads_env ==
    /\ task_card' = EmptyTaskCard
    /\ ablate_no_preview' = (getenv(environ, "ABLATE_NO_PREVIEW", "0") = "1")
    /\ ablate_no_validators' = (getenv(environ, "ABLATE_NO_VALIDATORS", "0") = "1")
    /\ ablate_no_gate' = (getenv(environ, "ABLATE_NO_GATE", "0") = "1")
    /\ op' = "reset"
    /\ UNCHANGED <<SIGNAL_WEIGHTS, environ, threshold, task_id,
                   last_signals, sink, sinkOk, call, last_sigma, ret, baseline,
                   baseline_call, ask_msg, threads>>

\* reset (core.py 333-341): a new empty task card, nothing else
reset ==
    /\ task_card' = EmptyTaskCard
    /\ op' = "reset"
    /\ UNCHANGED <<SIGNAL_WEIGHTS, environ, threshold, task_id,
                   ablate_no_preview, ablate_no_validators, ablate_no_gate,
                   last_signals, sink, sinkOk, call, last_sigma, ret, baseline,
                   baseline_call, ask_msg, threads>>

\* A validator given to run_baseline: what it does on the candidate, and
\* whether its __name__ holds one of 'safety', 'max', 'limit', 'critical'
\* (core.py 319-320).
RECURSIVE CountViolations(_)
\* variant: a validator that raises is not counted
CountViolations_failing_only(validators) ==
    Cardinality({i \in 1..Len(validators) : validators[i].outcome = "fail"})

CountViolations(validators) ==
    IF validators = <<>> THEN 0
    ELSE (IF Head(validators).outcome = "pass" THEN 0 ELSE 1)
           + CountViolations(Tail(validators))

\* the dict returned by run_baseline (core.py 296-331), elapsed_ms left out
baseline_result(b) ==
    LET vs == IF IsNone(b.validators) THEN <<>> ELSE Value(b.validators) IN
    [applied |-> b.apply_fn = "ok",
     violations_count |-> CountViolations(vs),
     safety_violation |->
        \E i \in 1..Len(vs) : vs[i].outcome = "fail" /\ vs[i].safety_name,
     result |-> IF b.apply_fn = "ok" THEN Some(b.candidate) ELSE None]

\* whether an exception of apply_fn or of a validator leaves run_baseline:
\* both calls sit in try/except Exception (core.py 299-304, 313-323)
baseline_raises(b) == FALSE

\* a call of run_baseline (core.py 284-331): it reads and writes no field
\* of the instance
run_baseline(b) ==
    /\ baseline' = IF baseline_raises(b) THEN None ELSE Some(baseline_result(b))
    /\ baseline_call' = Some(b)
    /\ op' = "run_baseline"
    /\ UNCHANGED <<SIGNAL_WEIGHTS, environ, threshold, task_id, task_card,
                   ablate_no_preview, ablate_no_validators, ablate_no_gate,
                   last_signals, sink, sinkOk, call, last_sigma, ret,
                   ask_msg, threads>>

\* `task_id or str(uuid.uuid4())` (core.py 43)
new_task_id(tid, uuid) == IF IsNone(tid) THEN uuid ELSE Value(tid)

\* a new instance SelectorThreshold(threshold=tau, log_file=<the same
\* file>, task_id=tid) takes the place of the instance (core.py 40-54):
\* the file is neither opened nor truncated by __init__
construct(tau, tid, uuid) ==
    /\ threshold' = tau
    /\ task_id' = new_task_id(tid, uuid)
    /\ task_card' = EmptyTaskCard
    /\ ablate_no_preview' = (getenv(environ, "ABLATE_NO_PREVIEW", "0") = "1")
    /\ ablate_no_validators' = (getenv(environ, "ABLATE_NO_VALIDATORS", "0") = "1")
    /\ ablate_no_gate' = (getenv(environ, "ABLATE_NO_GATE", "0") = "1")
    /\ last_signals' = EmptyDict
    /\ call' = None
    /\ last_sigma' = None
    /\ ret' = NoReturn
    /\ baseline' = None
    /\ baseline_call' = None
    /\ ask_msg' = None
    /\ threads' = NoThreads
    /\ op' = "__init__"
    /\ UNCHANGED <<SIGNAL_WEIGHTS, environ, sink, sinkOk>>

\* the caller replaces the task card wholesale: selector.task_card = {...}
\* (demo_ask_path.py 14-31, 81-101)
set_task_card(card) ==
    /\ task_card' = card
    /\ op' = "set_task_card"
    /\ UNCHANGED <<SIGNAL_WEIGHTS, environ, threshold, task_id,
                   ablate_no_preview, ablate_no_validators, ablate_no_gate,
                   last_signals, sink, sinkOk, call, last_sigma, ret, baseline,
                   baseline_call, ask_msg, threads>>

\* os.environ[name] = '1', or the variable is removed
\* (demo_pack_runner.py 126-132)
setenv(name, value) ==
    /\ environ' = [environ EXCEPT ![name] = value]
    /\ op' = "setenv"
    /\ UNCHANGED <<SIGNAL_WEIGHTS, threshold, task_id, task_card,
                   ablate_no_preview, ablate_no_validators, ablate_no_gate,
                   last_signals, sink, sinkOk, call, last_sigma, ret, baseline,
                   baseline_call, ask_msg, threads>>

--------------------------------------------------------------------------
(* The scenarios of the demos and of the test sets *)

Tenths(n) == (n * One) \div 10

\* a small dict candidate, non-critical validators, no policy_flags and no
\* diff_risk override
Scenario(validators, um, rev, cons, missing) ==
    [candidate |-> [kind |-> "dict", len |-> 60],
     validators |-> validators,
     uncertainty_margin |-> um,
     reversibility |-> rev,
     consistency_across_modalities |-> cons,
     policy_flags |-> None,
     diff_risk |-> None,
     missing_fields |-> missing,
     critical_validators |-> FALSE]

OneMissing(field, hint) == Some(<<<<field, hint>>>>)

\* demo_ask_path.py 32-63 and hard_test_set.py 306-336: the keys validator
\* fails, the other two pass
demo_ask_path ==
    Scenario(<<"fail", "pass", "pass">>, Some(Tenths(3)), None, None,
             OneMissing("plan", "string format"))

\* demo_ask_path.py 77-104: the second call, on the completed candidate
demo_ask_resolved ==
    Scenario(<<"pass", "pass", "pass">>, None, None, None, None)

\* the same scenario with the failing validator at each place of the list
TwoOfThree ==
    {<<"fail", "pass", "pass">>, <<"pass", "fail", "pass">>,
     <<"pass", "pass", "fail">>}

AskScenarios ==
    {Scenario(v, Some(Tenths(3)), None, None, OneMissing("plan", "string format")) :
        v \in TwoOfThree}

\* tests/complex_test_set.py 22-68
test_table_schema_required_fields ==
    Scenario(<<"pass", "pass">>, Some(Tenths(4)), Some(One), Some(Tenths(7)),
             OneMissing("status", "enum: active|inactive"))

\* tests/complex_test_set.py 228-271
test_timezone_ambiguous_time ==
    Scenario(<<"pass", "pass">>, Some(Tenths(3)), Some(One), Some(Tenths(6)),
             OneMissing("dst_flag", "first or second occurrence"))

\* tests/complex_test_set.py 726-975: the last of the three validators fails
missing_task(field, hint) ==
    Scenario(<<"pass", "pass", "fail">>, Some(Tenths(3)), Some(One),
             Some(Tenths(5)), OneMissing(field, hint))

test_wcag_missing_contrast_ratio == missing_task("contrast_ratio", "numeric ratio")
test_table_missing_primary_key == missing_task("primary_key", "column name")
test_unicode_missing_normalization_form == missing_task("normalization_form", "NFC or NFD")
test_timezone_missing_timezone_name == missing_task("timezone", "IANA timezone name")
test_weighted_mean_missing_weights == missing_task("weights", "array of numbers")

\* the tasks of the complex test set that return 'expected': 'ask'
ExpectedAskTasks ==
    {test_table_schema_required_fields, test_timezone_ambiguous_time,
     test_wcag_missing_contrast_ratio, test_table_missing_primary_key,
     test_unicode_missing_normalization_form,
     test_timezone_missing_timezone_name, test_weighted_mean_missing_weights}

\* tests/complex_test_set.py 357-375: one critical validator, which fails
test_wcag_aa_contrast_fail ==
    [Scenario(<<"fail">>, None, None, None, None)
        EXCEPT !.critical_validators = TRUE]

ScenarioArgs ==
    AskScenarios \cup ExpectedAskTasks
        \cup {demo_ask_resolved, test_wcag_aa_contrast_fail}

\* Specification: one fresh instance and one call out of the scenarios
ScenarioNext == IsNone(call) /\ \E a \in ScenarioArgs : preview_apply_gate(a)

ScenarioSpec == Init /\ [][ScenarioNext]_vars

--------------------------------------------------------------------------
(* Specification: the life of an instance.  Instances are constructed on  *)
(* one sink with one task id, the environment is changed at any time, and *)
(* preview_apply_gate, run_baseline and reset are called in any order.    *)

DefaultThreshold == (60 * SigmaOne) \div 100

\* the state after SelectorThreshold(log_file=..., task_id=tid) in the
\* environment env (core.py 40-54), on an empty sink that can be appended to
Constructed(env, tid) ==
    /\ SIGNAL_WEIGHTS = WeightTable
    /\ environ = env
    /\ threshold = DefaultThreshold
    /\ task_id = tid
    /\ task_card = EmptyTaskCard
    /\ ablate_no_preview = (getenv(env, "ABLATE_NO_PREVIEW", "0") = "1")
    /\ ablate_no_validators = (getenv(env, "ABLATE_NO_VALIDATORS", "0") = "1")
    /\ ablate_no_gate = (getenv(env, "ABLATE_NO_GATE", "0") = "1")
    /\ last_signals = EmptyDict
    /\ sink = <<>>
    /\ sinkOk = TRUE
    /\ call = None
    /\ last_sigma = None
    /\ ret = NoReturn
    /\ op = "__init__"
    /\ baseline = None
    /\ baseline_call = None
    /\ ask_msg = None
    /\ threads = NoThreads

LifeArgs == {demo_ask_path, demo_ask_resolved}

BaselineArgs ==
    {[candidate |-> [kind |-> "dict", len |-> 60], apply_fn |-> "ok",
      validators |-> None],
     [candidate |-> [kind |-> "dict", len |-> 60], apply_fn |-> "raise",
      validators |-> Some(<<[outcome |-> "fail", safety_name |-> TRUE],
                            [outcome |-> "raise", safety_name |-> FALSE]>>)]}

\* the task ids callers supply
TaskIds == {"T1"}

\* what uuid.uuid4() gives
Uuids == {"uuid-1"}

\* the task ids in use: uuid4 gives none of them again
UsedIds == {task_id} \cup {sink[i].task_id : i \in 1..Len(sink)}

LifeInit == Constructed([n \in EnvNames |-> None], "T1")

LifeNext ==
    \/ Len(sink) < MaxRecords /\ \E a \in LifeArgs : preview_apply_gate(a)
    \/ reset
    \/ \E b \in BaselineArgs : run_baseline(b)
    \/ \E tid \in Opt(TaskIds), uuid \in Uuids \ UsedIds :
          construct(DefaultThreshold, tid, uuid)
    \/ \E name \in EnvNames, value \in Opt({"1"}) : setenv(name, value)

LifeSpec == LifeInit /\ [][LifeNext]_vars

--------------------------------------------------------------------------
(* Specification: the tasks of an instance.  The caller replaces the task *)
(* card between calls of preview_apply_gate and reset.                    *)

TaskArgs == {demo_ask_path, demo_ask_resolved, test_wcag_aa_contrast_fail}

\* demo_ask_path.py 14-31
json_task_card ==
    [goal |-> {"json", "schema"},
     rules |-> <<"Must have exact keys: name, email, date, plan">>,
     facts |-> <<"input_text">>,
     plan |-> <<"Parse text into key-value pairs">>,
     log |-> <<>>]

\* tests/complex_test_set.py 360-366: a goal with none of the keywords
wcag_task_card ==
    [goal |-> {},
     rules |-> <<"Normal text: ratio >= 4.5:1">>,
     facts |-> <<"foreground", "background", "text_size">>,
     plan |-> <<"Calculate contrast ratio", "Check WCAG AA">>,
     log |-> <<>>]

\* hard_test_set.py 65-71: 'Calculate drug dosage for patient'
dosage_task_card ==
    [goal |-> {"drug"},
     rules |-> <<"Weight must be between 1-300kg", "Max safe: 90mg">>,
     facts |-> <<"weight", "dose_per_kg">>,
     plan |-> <<"Calculate dose", "Check safety">>,
     log |-> <<>>]

TaskCards == {json_task_card, wcag_task_card, dosage_task_card}

TaskInit == \E env \in Environments : Constructed(env, "T1")

TaskNext ==
    \/ Len(sink) < MaxRecords /\ \E a \in TaskArgs : preview_apply_gate(a)
    \/ reset
    \/ \E card \in TaskCards : set_task_card(card)

TaskSpec == TaskInit /\ [][TaskNext]_vars

--------------------------------------------------------------------------
(* Specification: two threads call preview_apply_gate on one instance.   *)
(* The instance has no lock; a thread can be preempted between any two   *)
(* statements, so a call is cut where it touches the fields of the       *)
(* instance: core.py 83, 87 and the _log_decision before each return.    *)

\* tests/real_work_pack.py 357-385: a policy violation on an irreversible
\* action, one critical validator, which fails
test_policy_no_delete_production ==
    [Scenario(<<"fail">>, None, Some(0), None, None)
        EXCEPT !.policy_flags = Some(One), !.critical_validators = TRUE]

ConcurrentArgs ==
    {demo_ask_path, demo_ask_resolved, test_policy_no_delete_production}

\* the calls that have been entered and have not returned
InFlight == {t \in Threads : threads[t].pc \in {"trace", "log"}}

\* core.py 71-83: thread t enters the call with the arguments a; with the
\* gate skipped it goes on to core.py 73, otherwise it extracts its signals
\* and stores them in self._last_signals
thread_enter(t, a) ==
    /\ threads[t].pc \in {"idle", "done"}
    /\ IF ablate_no_gate THEN
          /\ threads' = [threads EXCEPT
                            ![t] = [pc |-> "log", a |-> Some(a),
                                    signals |-> EmptyDict, sigma |-> None,
                                    ret |-> NoReturn]]
          /\ UNCHANGED last_signals
       ELSE
          LET signals == calculate_signals(a, ablate_no_validators) IN
          /\ threads' = [threads EXCEPT
                            ![t] = [pc |-> "trace", a |-> Some(a),
                                    signals |-> signals, sigma |-> None,
                                    ret |-> NoReturn]]
          /\ last_signals' = signals
    /\ op' = "preview_apply_gate"
    /\ UNCHANGED <<SIGNAL_WEIGHTS, environ, threshold, task_id, task_card,
                   ablate_no_preview, ablate_no_validators, ablate_no_gate,
                   sink, sinkOk, call, last_sigma, ret, baseline,
                   baseline_call, ask_msg>>

\* core.py 84-87: thread t computes Sigma of its signals and appends the
\* trace entry to the task card of the moment
thread_trace(t) ==
    /\ threads[t].pc = "trace"
    /\ LET sigma == compute_sigma(SIGNAL_WEIGHTS, threads[t].signals) IN
       /\ threads' = [threads EXCEPT ![t].pc = "log", ![t].sigma = Some(sigma)]
       /\ task_card' = [task_card EXCEPT
                           !.log = Append(@, trace_entry(sigma, threads[t].signals))]
    /\ op' = "preview_apply_gate"
    /\ UNCHANGED <<SIGNAL_WEIGHTS, environ, threshold, task_id,
                   ablate_no_preview, ablate_no_validators, ablate_no_gate,
                   last_signals, sink, sinkOk, call, last_sigma, ret, baseline,
                   baseline_call, ask_msg>>

\* variant: the branch is taken on self._last_signals
thread_log_shared(t) ==
    /\ threads[t].pc = "log"
    /\ LET a == Value(threads[t].a)
           out == IF ablate_no_gate THEN ablated_run(a, sinkOk)
                  ELSE LET sigma == Value(threads[t].sigma)
                           branch == decide(last_signals, sigma, threshold,
                                            a.missing_fields)
                           phase == IF branch = "policy_refuse" THEN "refuse"
                                    ELSE branch
                           lg == log_decision(sink, sinkOk, task_id, task_card,
                                              last_signals, sigma, phase,
                                              explain(branch, sigma, threshold,
                                                      a.missing_fields),
                                              threshold)
                       IN  Outcome(lg.sink, return_of(branch, a.candidate),
                                   last_signals, task_card, Some(sigma))
       IN  /\ sink' = out.sink
           /\ threads' = [threads EXCEPT ![t].pc = "done", ![t].ret = out.ret]
    /\ op' = "preview_apply_gate"
    /\ UNCHANGED <<SIGNAL_WEIGHTS, environ, threshold, task_id, task_card,
                   ablate_no_preview, ablate_no_validators, ablate_no_gate,
                   last_signals, sinkOk, call, last_sigma, ret, baseline,
                   baseline_call, ask_msg>>

\* core.py 72-75 and 92-113: thread t takes its branch on its own signals
\* and Sigma, writes the record through _log_decision, which reads
\* self._last_signals (core.py 246) and self.task_card, and returns
thread_log(t) ==
    /\ threads[t].pc = "log"
    /\ LET a == Value(threads[t].a)
           out == IF ablate_no_gate THEN ablated_run(a, sinkOk)
                  ELSE LET sigma == Value(threads[t].sigma)
                           branch == decide(threads[t].signals, sigma, threshold,
                                            a.missing_fields)
                           phase == IF branch = "policy_refuse" THEN "refuse"
                                    ELSE branch
                           lg == log_decision(sink, sinkOk, task_id, task_card,
                                              last_signals, sigma, phase,
                                              explain(branch, sigma, threshold,
                                                      a.missing_fields),
                                              threshold)
                       IN  Outcome(lg.sink, return_of(branch, a.candidate),
                                   last_signals, task_card, Some(sigma))
       IN  /\ sink' = out.sink
           /\ threads' = [threads EXCEPT ![t].pc = "done", ![t].ret = out.ret]
    /\ op' = "preview_apply_gate"
    /\ UNCHANGED <<SIGNAL_WEIGHTS, environ, threshold, task_id, task_card,
                   ablate_no_preview, ablate_no_validators, ablate_no_gate,
                   last_signals, sinkOk, call, last_sigma, ret, baseline,
                   baseline_call, ask_msg>>

ConcurrentInit == \E env \in Environments : Constructed(env, "T1")

ConcurrentNext ==
    \/ /\ Len(sink) + Cardinality(InFlight) < MaxRecords
       /\ \E t \in Threads, a \in ConcurrentArgs : thread_enter(t, a)
    \/ \E t \in Threads : thread_trace(t)
    \/ \E t \in Threads : thread_log(t)

ConcurrentSpec == ConcurrentInit /\ [][ConcurrentNext]_vars

---------------------------------------------------------------------------
(* Specification: one call on an instance constructed with a threshold    *)
(* of 0.6 or 0.9, over candidates on both sides of the size limit and     *)
(* override values on the unit interval and outside it.                   *)

\* the state after SelectorThreshold(threshold=tau, task_id=tid) in the
\* environment env (core.py 40-54), on an empty sink that can be appended to
ConstructedAt(tau, env, tid) ==
    /\ SIGNAL_WEIGHTS = WeightTable
    /\ environ = env
    /\ threshold = tau
    /\ task_id = tid
    /\ task_card = EmptyTaskCard
    /\ ablate_no_preview = (getenv(env, "ABLATE_NO_PREVIEW", "0") = "1")
    /\ ablate_no_validators = (getenv(env, "ABLATE_NO_VALIDATORS", "0") = "1")
    /\ ablate_no_gate = (getenv(env, "ABLATE_NO_GATE", "0") = "1")
    /\ last_signals = EmptyDict
    /\ sink = <<>>
    /\ sinkOk = TRUE
    /\ call = None
    /\ last_sigma = None
    /\ ret = NoReturn
    /\ op = "__init__"
    /\ baseline = None
    /\ baseline_call = None
    /\ ask_msg = None
    /\ threads = NoThreads

SignalThresholds == {(60 * SigmaOne) \div 100, (90 * SigmaOne) \div 100}

\* a str, a dict and a list, each with len(candidate) (len(str(candidate))
\* for the dict) just below, at and just above the limit of core.py 177-180
SignalCandidates ==
    [kind : {"str", "dict", "list"},
     len : {SmallLimit - 1, SmallLimit, SmallLimit + 1}]

Thousandths(n) == (n * One) \div 1000

SignalArgs ==
    [candidate : SignalCandidates,
     validators : {<<"pass">>, <<"fail">>},
     uncertainty_margin : Opt({0, One, 3 * One}),
     reversibility : Opt({0, One}),
     consistency_across_modalities : Opt({0, One}),
     policy_flags : Opt({One}),
     diff_risk : Opt({Thousandths(4), One}),
     missing_fields : {None, OneMissing("plan", "string")},
     critical_validators : {FALSE}]

SignalInit ==
    \E tau \in SignalThresholds, env \in Environments :
        ConstructedAt(tau, env, "T1")

SignalNext == IsNone(call) /\ \E a \in SignalArgs : preview_apply_gate(a)

SignalSpec == SignalInit /\ [][SignalNext]_vars

---------------------------------------------------------------------------
(* Specification: the helpers called directly, after at most one          *)
(* evaluation: _generate_ask_message on lists of any length, run_baseline *)
(* on every short list of validators.                                     *)

MaxFields == 4

\* the lists of 0..MaxFields (field, format_hint) pairs
FieldLists ==
    UNION {[1..n -> {FieldPool[i] : i \in 1..Len(FieldPool)}] : n \in 0..MaxFields}

\* a direct call of _generate_ask_message (core.py 183-197): it touches no
\* field of the instance
call_generate_ask_message(missing_fields) ==
    /\ ask_msg' = Some([missing_fields |-> missing_fields,
                        message |-> generate_ask_message(missing_fields)])
    /\ op' = "_generate_ask_message"
    /\ UNCHANGED <<SIGNAL_WEIGHTS, environ, threshold, task_id, task_card,
                   ablate_no_preview, ablate_no_validators, ablate_no_gate,
                   last_signals, sink, sinkOk, call, last_sigma, ret,
                   baseline, baseline_call, threads>>

BaselineValidators == [outcome : Outcomes, safety_name : BOOLEAN]

HelperBaselineArgs ==
    [candidate : {[kind |-> "dict", len |-> 60]},
     apply_fn : {"ok", "raise"},
     validators :
        Opt(UNION {[1..n -> BaselineValidators] : n \in 0..MaxValidators})]

HelperInit ==
    \E tau \in SignalThresholds, env \in Environments :
        ConstructedAt(tau, env, "T1")

NoHelperCalled == IsNone(baseline_call) /\ IsNone(ask_msg)

HelperNext ==
    \/ IsNone(call) /\ NoHelperCalled /\ \E a \in LifeArgs : preview_apply_gate(a)
    \/ NoHelperCalled /\ \E b \in HelperBaselineArgs : run_baseline(b)
    \/ NoHelperCalled /\ \E mf \in FieldLists : call_generate_ask_message(mf)

HelperSpec == HelperInit /\ [][HelperNext]_vars

---------------------------------------------------------------------------
(* Report tool: the metrics computed from the audit records read back     *)

\* the number of records with phase or decision equal to name
\* (make_report.py 71-73)
CountPhase(logs, name) ==
    Cardinality({i \in 1..Len(logs) :
                    logs[i].phase = name \/ logs[i].decision = name})

\* calculate_metrics (make_report.py 57-122), the counts and the ASK
\* metrics: a rate is the pair of its numerator and denominator, and it is
\* 0 when the denominator is 0.  ask_resolved is set to 0 (make_report.py
\* 97) and nothing adds to it.
calculate_metrics(logs) ==
    LET ask_count == CountPhase(logs, "ask")
        ask_resolved == 0
        ask_total == ask_count
    IN  [total |-> Len(logs),
         apply_count |-> CountPhase(logs, "apply"),
         refuse_count |-> CountPhase(logs, "refuse"),
         ask_count |-> ask_count,
         ask_resolved_rate |->
            IF ask_total > 0 THEN [num |-> ask_resolved, den |-> ask_total]
            ELSE [num |-> 0, den |-> 1]]

--------------------------------------------------------------------------
(* Properties *)

Called == ~IsNone(call)
Args == Value(call)

\* the call extracted a signal set and computed Sigma from it
GateRan == ~IsNone(last_sigma)
SigmaOfCall == Value(last_sigma)

PolicyAndIrreversible ==
    last_signals.policy_flags >= One /\ last_signals.reversibility = 0

MissingCount ==
    IF IsNone(Args.missing_fields) THEN 0 ELSE Len(Value(Args.missing_fields))

PassedCount ==
    Cardinality({i \in 1..Len(Args.validators) : Args.validators[i] = "pass"})

\* C1: with skip_gate off, a call whose signal set has policy_flags >= 1.0
\* and reversibility exactly 0.0 returns REFUSE (and no candidate), whatever
\* Sigma, the threshold, the validators and missing_fields are.
C1_HardOverrideRefuses ==
    (~ablate_no_gate /\ GateRan /\ PolicyAndIrreversible)
        => ret = Returned(None, REFUSE)

\* the override fires although every other signal is at its maximum and
\* Sigma reaches the threshold
C1_Witness ==
    /\ ~ablate_no_gate /\ GateRan /\ PolicyAndIrreversible
    /\ last_signals.validator_pass_rate = One
    /\ last_signals.uncertainty_margin = One
    /\ last_signals.consistency_across_modalities = One
    /\ SigmaOfCall >= threshold
    /\ ret.decision = REFUSE

\* C2: with skip_gate off and no hard override, Sigma >= tau returns APPLY
\* with the candidate, for every missing_fields; Sigma = tau included.
C2_AtLeastThresholdApplies ==
    (~ablate_no_gate /\ GateRan /\ ~PolicyAndIrreversible
       /\ SigmaOfCall >= threshold)
        => ret = Returned(Some(Args.candidate), APPLY)

\* Sigma is exactly tau, two fields are missing, and the call applies
C2_Witness ==
    /\ ~ablate_no_gate /\ GateRan /\ ~PolicyAndIrreversible
    /\ SigmaOfCall = threshold
    /\ MissingCount = 2
    /\ ret.decision = APPLY

\* C3: with skip_gate off and no hard override, the decision is ASK iff
\* 0.45 <= Sigma < tau and 1 or 2 fields are missing; every other call
\* with Sigma < tau returns REFUSE.
C3_AskIffBandAndOneOrTwoMissing ==
    (~ablate_no_gate /\ GateRan /\ ~PolicyAndIrreversible) =>
        LET inBand == (45 * SigmaOne) \div 100 <= SigmaOfCall
                        /\ SigmaOfCall < threshold
            asks == inBand /\ MissingCount \in {1, 2}
        IN  /\ (ret.decision = ASK) <=> asks
            /\ asks => ret = Returned(None, ASK)
            /\ (SigmaOfCall < threshold /\ ~asks) => ret = Returned(None, REFUSE)

\* an ASK with two missing fields
C3_Witness ==
    /\ ~ablate_no_gate /\ GateRan /\ ~PolicyAndIrreversible
    /\ MissingCount = 2
    /\ ret = Returned(None, ASK)

\* C4: a validator that raises is counted as a failing check and its
\* exception does not reach the caller: the call returns a decision and,
\* on a working sink, writes its audit record.
C4_RaisingValidatorIsFailedCheck ==
    (Called /\ validators_raise(Args.validators)) =>
        /\ ret.status = "returned"
        /\ sinkOk => Len(sink) = 1
        /\ (~ablate_no_gate /\ ~ablate_no_validators) =>
              /\ GateRan
              /\ last_signals.validator_pass_rate * Len(Args.validators)
                    <= PassedCount * One

\* C5: a call made against a sink that fails gives its caller what the same
\* call gives against a working sink, and raises nothing because of the sink.
C5_FailingSinkSameReturn ==
    [][~IsNone(call') => ret' = gate_run(Value(call'), TRUE).ret]_vars

\* a call on a failing sink that returned ASK and left the sink empty
C5_Witness ==
    /\ Called /\ ~sinkOk
    /\ sink = <<>>
    /\ ret = Returned(None, ASK)

\* C6: with skip_gate on, every call returns APPLY with the candidate and
\* records Sigma = 1.0, also when policy_flags >= 1.0 and reversibility 0.0.
C6_SkipGateApplies ==
    (Called /\ ablate_no_gate) =>
        /\ ret = Returned(Some(Args.candidate), APPLY)
        /\ sinkOk => /\ Len(sink) = 1
                     /\ sink[1].sigma = 1000
                     /\ sink[1].phase = "apply"

\* skip_gate on, the overrides that force REFUSE otherwise, a failing validator
C6_Witness ==
    /\ Called /\ ablate_no_gate /\ sinkOk
    /\ Args.policy_flags = Some(One)
    /\ Args.reversibility = Some(0)
    /\ \E i \in 1..Len(Args.validators) : Args.validators[i] = "fail"
    /\ ret.decision = APPLY
    /\ sink[1].sigma = 1000

InUnitInterval(signals) ==
    /\ DOMAIN signals = SignalNames
    /\ \A n \in SignalNames : 0 <= signals[n] /\ signals[n] <= One

DotProduct(signals) ==
    35 * signals.validator_pass_rate + 20 * signals.uncertainty_margin
      + 15 * signals.reversibility + 15 * signals.consistency_across_modalities
      - 10 * signals.policy_flags - 10 * signals.diff_risk

\* C7: for signals all in [0,1], _compute_sigma gives the clamp to [0,1] of
\* 0.35 vpr + 0.20 um + 0.15 rev + 0.15 cons - 0.10 pf - 0.10 dr, a value in
\* [0,1]; and the weight table keeps its values.
C7_SigmaIsClampedWeightedSum ==
    /\ SIGNAL_WEIGHTS = [validator_pass_rate |-> 35, uncertainty_margin |-> 20,
                         reversibility |-> 15,
                         consistency_across_modalities |-> 15,
                         policy_flags |-> -10, diff_risk |-> -10]
    /\ (GateRan /\ InUnitInterval(last_signals)) =>
          LET d == DotProduct(last_signals) IN
          /\ 0 <= SigmaOfCall /\ SigmaOfCall <= SigmaOne
          /\ SigmaOfCall = (IF d < 0 THEN 0 ELSE IF d > SigmaOne THEN SigmaOne ELSE d)

\* the weighted sum is negative and Sigma is 0
C7_Witness ==
    /\ GateRan /\ InUnitInterval(last_signals)
    /\ DotProduct(last_signals) < 0
    /\ SigmaOfCall = 0

\* C8: validator_pass_rate is 0.0 under skip_validators; else 0.5 for an
\* empty validator list; else, with critical set, 1.0 if all pass and 0.0
\* if one fails; else passed/total.
C8_ValidatorPassRate ==
    GateRan =>
        LET rate == last_signals.validator_pass_rate
            n == Len(Args.validators)
        IN  IF ablate_no_validators THEN rate = 0
            ELSE IF n = 0 THEN 2 * rate = One
            ELSE IF Args.critical_validators
                 THEN rate = (IF PassedCount = n THEN One ELSE 0)
            ELSE rate * n = PassedCount * One

\* critical, two of three validators pass, the rate is 0.0
C8_Witness ==
    /\ GateRan /\ ~ablate_no_validators
    /\ Args.critical_validators
    /\ Len(Args.validators) = 3 /\ PassedCount = 2
    /\ last_signals.validator_pass_rate = 0

OverrideNames ==
    {"uncertainty_margin", "reversibility", "consistency_across_modalities",
     "policy_flags", "diff_risk"}

\* C9: the extracted signal set has exactly the six keys; a supplied
\* override, 0.0 included, is the signal's value; the fixed defaults (0.5,
\* 1.0, 0.0) stand for an absent uncertainty_margin, consistency and
\* policy_flags.
C9_OverridesKeptSixKeys ==
    GateRan =>
        /\ DOMAIN last_signals = SignalNames
        /\ \A n \in OverrideNames :
              ~IsNone(Args[n]) => last_signals[n] = Value(Args[n])
        /\ IsNone(Args.uncertainty_margin)
              => 2 * last_signals.uncertainty_margin = One
        /\ IsNone(Args.consistency_across_modalities)
              => last_signals.consistency_across_modalities = One
        /\ IsNone(Args.policy_flags) => last_signals.policy_flags = 0

\* overrides of 0.0 where the default is not 0.0
C9_Witness ==
    /\ GateRan
    /\ Args.reversibility = Some(0) /\ last_signals.reversibility = 0
    /\ Args.consistency_across_modalities = Some(0)
    /\ last_signals.consistency_across_modalities = 0
    /\ ~is_small_reversible(Args.candidate)
    /\ Args.diff_risk = Some(0) /\ last_signals.diff_risk = 0

PhaseName(decision) ==
    IF decision = APPLY THEN "apply"
    ELSE IF decision = ASK THEN "ask"
    ELSE "refuse"

\* C10: a call that returns has appended exactly one record to a working
\* sink, and the record's phase and decision name the decision returned.
C10_OneRecordPerReturn ==
    [][(ret'.status = "returned" /\ sinkOk) =>
          /\ Len(sink') = Len(sink) + 1
          /\ SubSeq(sink', 1, Len(sink)) = sink
          /\ sink'[Len(sink')].phase = PhaseName(ret'.decision)
          /\ sink'[Len(sink')].decision = PhaseName(ret'.decision)]_vars

\* an ASK whose one record says ask
C10_Witness ==
    /\ ret = Returned(None, ASK) /\ sinkOk
    /\ Len(sink) = 1
    /\ sink[1].phase = "ask" /\ sink[1].decision = "ask"

--------------------------------------------------------------------------
(* Properties of the sink, the trace and the switches over several calls *)

IsPrefix(s, t) == Len(s) <= Len(t) /\ SubSeq(t, 1, Len(s)) = s

Last(s) == s[Len(s)]

\* the `decision` of the record written for a returned decision
DecisionName(d) ==
    IF d = APPLY THEN "apply" ELSE IF d = ASK THEN "ask" ELSE "refuse"

\* C11: no step of any operation changes or removes a record that is in the
\* sink, and every evaluation that returns appends exactly one record, at
\* the end, carrying the task_id of the instance and the decision returned.
\* So an ASK under task_id T followed later by an APPLY under the same T, on
\* the same instance or on a new one constructed with T on the same sink,
\* leaves two distinct records with task_id T, the ASK record first and
\* unchanged.
C11_AskThenApplyTwoRecords ==
    [][/\ IsPrefix(sink, sink')
       /\ (op' = "preview_apply_gate" /\ ret'.status = "returned") =>
            /\ Len(sink') = Len(sink) + 1
            /\ Last(sink').task_id = task_id
            /\ Last(sink').decision = DecisionName(ret'.decision)]_vars

\* C11 witness: an ASK record and after it an APPLY record of the same task
C11_Witness ==
    /\ Len(sink) = 2
    /\ sink[1].task_id = "T1" /\ sink[2].task_id = "T1"
    /\ sink[1].decision = "ask" /\ sink[2].decision = "apply"
    /\ ret.decision = APPLY

\* C12 (as stated): after every call that returned on a working sink, the
\* record written has a signals object with all six signal keys, each the
\* 3-decimal rounding of the value extracted in that call, and a sigma that
\* is the 3-decimal rounding of the Sigma of those signals.
C12_RecordHoldsSignalsOfInvocation ==
    (Called /\ sinkOk /\ ret.status = "returned") =>
        LET r == Last(sink)
            signals == calculate_signals(Args, ablate_no_validators)
        IN  /\ DOMAIN r.signals = SignalNames
            /\ \A n \in SignalNames : r.signals[n] = RoundSignal(signals[n])
            /\ r.sigma = RoundSigma(compute_sigma(SIGNAL_WEIGHTS, signals))

\* C13 (as stated): every evaluation adds exactly one entry to the trace, so
\* that n evaluations with no reset in between leave n entries.
C13_OneEntryPerEvaluation ==
    [][op' = "preview_apply_gate" =>
          Len(task_card'.log) = Len(task_card.log) + 1]_vars

\* C13 (amended): an evaluation that computes Sigma appends exactly one
\* entry, that of this Sigma and these signals, after the entries already
\* there; an evaluation with the gate skipped computes no Sigma and leaves
\* the trace as it is; of the operations of one instance only reset()
\* removes entries (a new instance starts with its own empty trace).
C13_OneEntryPerSigma ==
    [][/\ op' = "preview_apply_gate" =>
            IF ~IsNone(last_sigma')
            THEN task_card'.log =
                    Append(task_card.log,
                           [sigma |-> RoundSigma(Value(last_sigma')),
                            signals |-> last_signals'])
            ELSE task_card'.log = task_card.log
       /\ op' \notin {"reset", "__init__"} => IsPrefix(task_card.log, task_card'.log)
       /\ op' = "reset" => task_card'.log = <<>>]_vars

\* C13 witness: two evaluations on one instance left two trace entries, the
\* ASK one before the APPLY one
C13_Witness ==
    /\ op = "preview_apply_gate"
    /\ Len(task_card.log) = 2
    /\ task_card.log[1].signals.validator_pass_rate < One
    /\ task_card.log[2].signals.validator_pass_rate = One

--------------------------------------------------------------------------
(* Properties of the ASK message and of the value returned *)

\* the string a message is: its pieces one after the other
RECURSIVE Flatten(_)
Flatten(pieces) ==
    IF pieces = <<>> THEN "" ELSE Head(pieces) \o Flatten(Tail(pieces))

\* the places of the string m where the string sub starts
Occurs(m, sub) ==
    {i \in 1..(Len(m) - Len(sub) + 1) : SubSeq(m, i, i + Len(sub) - 1) = sub}

\* the ASK message of the call, as the audit record holds it
AskMessage == Flatten(Last(sink).explanation.ask)

MissingOfCall == Value(Args.missing_fields)

\* C14: the message built from one pair (field, format_hint) is exactly
\* "I need {field} to proceed safely. Provide {format_hint}."; the message
\* built from two pairs is one sentence in which "{field} ({format_hint})"
\* of the first pair, the word "and" and "{field} ({format_hint})" of the
\* second pair follow each other in this order.
C14_AskMessageTemplate ==
    (Called /\ sinkOk /\ ret.decision = ASK) =>
        LET mf == MissingOfCall
            m == AskMessage
            part(i) == mf[i][1] \o " (" \o mf[i][2] \o ")"
        IN  /\ Len(mf) = 1 =>
                m = "I need " \o mf[1][1] \o " to proceed safely. Provide "
                        \o mf[1][2] \o "."
            /\ Len(mf) = 2 =>
                /\ Occurs(m, ".") = {Len(m)}
                /\ \E i \in Occurs(m, part(1)), j \in Occurs(m, " and "),
                      k \in Occurs(m, part(2)) :
                        i + Len(part(1)) <= j /\ j + Len(" and ") <= k

\* C14 witness: an ASK whose message was built from two pairs
C14_Witness ==
    /\ Called /\ sinkOk /\ ret.decision = ASK
    /\ Len(MissingOfCall) = 2
    /\ AskMessage = "I need plan (string) and date (YYYY-MM-DD) to proceed safely."

\* C15 (as stated): when the call decides ASK, what it returns carries the
\* clarification message built from the supplied missing fields, and those
\* missing fields.
C15_AskReturnCarriesMessage ==
    (Called /\ ret.decision = ASK) =>
        ret.result = Some([message |-> generate_ask_message(MissingOfCall),
                           missing_fields |-> MissingOfCall])

\* C15 (amended): when the call decides ASK it returns (None, "ASK"), with
\* neither the message nor the missing fields; the clarification message
\* built from the supplied missing fields is in the explanation of the
\* audit record of the call, which exists when the append succeeds.
C15_AskMessageOnlyInRecord ==
    (Called /\ ret.decision = ASK) =>
        /\ ret = Returned(None, ASK)
        /\ sinkOk =>
            /\ Last(sink).phase = "ask"
            /\ Last(sink).explanation.ask /= <<>>
            /\ Last(sink).explanation.ask = generate_ask_message(MissingOfCall)
        /\ ~sinkOk => sink = <<>>

\* C15 witness: an ASK on one missing field, returned as (None, "ASK"), its
\* message in the record
C15_Witness ==
    /\ Called /\ sinkOk /\ ret = Returned(None, ASK)
    /\ Len(MissingOfCall) = 1
    /\ AskMessage = "I need plan to proceed safely. Provide string."

\* C16: a call that returns APPLY returns the candidate as it was passed
\* in, unchanged, and a call that returns ASK or REFUSE returns None in its
\* place; a call returns one of these three.
C16_ApplyReturnsCandidateElseNone ==
    (Called /\ ret.status = "returned") =>
        /\ ret.decision \in {APPLY, ASK, REFUSE}
        /\ ret.decision = APPLY => ret.result = Some(Args.candidate)
        /\ ret.decision \in {ASK, REFUSE} => ret.result = None

\* C16 witness: a gated APPLY that returned the large dict candidate
C16_Witness ==
    /\ Called /\ GateRan /\ ret.decision = APPLY
    /\ ret.result = Some([kind |-> "dict", len |-> 1000])

--------------------------------------------------------------------------
(* Properties of the scenarios *)

NoAblation == ~ablate_no_gate /\ ~ablate_no_validators

\* C17: at tau = 0.60 with no ablation, a small dict candidate, three
\* non-critical validators of which exactly two pass, uncertainty_margin
\* 0.3, no other override and one missing field give validator_pass_rate
\* 2/3 (0.667 when rounded), a Sigma in [0.45, 0.60) and the decision ASK.
C17_DemoAskScenario ==
    (/\ Called /\ NoAblation /\ threshold = DefaultThreshold
     /\ Args.candidate.kind = "dict" /\ Args.candidate.len < SmallLimit
     /\ Len(Args.validators) = 3 /\ PassedCount = 2
     /\ \A i \in 1..3 : Args.validators[i] /= "raise"
     /\ ~Args.critical_validators
     /\ Args.uncertainty_margin = Some(Tenths(3))
     /\ IsNone(Args.reversibility)
     /\ IsNone(Args.consistency_across_modalities)
     /\ IsNone(Args.policy_flags) /\ IsNone(Args.diff_risk)
     /\ MissingCount = 1)
    =>
        /\ GateRan
        /\ 3 * last_signals.validator_pass_rate = 2 * One
        /\ RoundSignal(last_signals.validator_pass_rate) = 667
        /\ AskLow <= SigmaOfCall /\ SigmaOfCall < DefaultThreshold
        /\ ret = Returned(None, ASK)

\* C17 witness: the call of demo_ask_path.py returned ASK with Sigma 0.593
C17_Witness ==
    /\ Called /\ NoAblation /\ threshold = DefaultThreshold
    /\ Args = demo_ask_path
    /\ RoundSigma(SigmaOfCall) = 593
    /\ ret.decision = ASK

\* C18 (as stated): at tau = 0.60 with no ablation, each task of the complex
\* test set that declares expected 'ask' returns ASK on its first call.
C18_ExpectedAskTasksAsk ==
    (/\ Called /\ NoAblation /\ threshold = DefaultThreshold
     /\ Args \in ExpectedAskTasks)
    => ret.decision = ASK

\* the three switches of the instance
Switches == <<ablate_no_preview, ablate_no_validators, ablate_no_gate>>

\* C19: the switches of an instance change in no step but the construction
\* of an instance, whatever is set or cleared in the environment and
\* whichever of preview_apply_gate, run_baseline and reset is called; and
\* every evaluation follows the switches, not the environment of the
\* moment: with skip_gate it computes no Sigma and returns APPLY, without
\* it it computes Sigma on a signal set whose validator_pass_rate is 0.0
\* under skip_validators and the pass rate of the validators otherwise,
\* and it returns, stores and records what the switches prescribe.
C19_SwitchesFixedAtConstruction ==
    [][/\ op' /= "__init__" => Switches' = Switches
       /\ op' = "preview_apply_gate" =>
            LET a == Value(call')
                expected == IF ablate_no_gate THEN ablated_run(a, sinkOk)
                            ELSE gated_run(a, sinkOk)
            IN  /\ ablate_no_gate =>
                    IsNone(last_sigma') /\ ret'.decision = APPLY
                /\ ~ablate_no_gate =>
                    /\ ~IsNone(last_sigma')
                    /\ last_signals'.validator_pass_rate =
                          validator_pass_rate(a.validators, a.critical_validators,
                                              ablate_no_validators)
                /\ ret' = expected.ret
                /\ last_signals' = expected.last_signals
                /\ sink' = expected.sink]_vars

\* C19 witness: ABLATE_NO_GATE and ABLATE_NO_VALIDATORS were set after the
\* construction, and the instance still ran its validators and returned ASK
C19_Witness ==
    /\ op = "preview_apply_gate"
    /\ environ["ABLATE_NO_GATE"] = Some("1")
    /\ environ["ABLATE_NO_VALIDATORS"] = Some("1")
    /\ ~ablate_no_gate /\ ~ablate_no_validators
    /\ last_signals.validator_pass_rate > 0
    /\ ret.decision = ASK

--------------------------------------------------------------------------
(* The decision and the Task Context *)

\* task cards that differ in goal, rules, facts, plan or trace
ContextCards ==
    TaskCards \cup {EmptyTaskCard}
        \cup {[card EXCEPT !.log = <<trace_entry(SigmaOne, EmptyDict)>>] :
                card \in TaskCards}

\* two audit records that differ at most in the task-card snapshot and in
\* the advisory note
SameButContext(r1, r2) ==
    /\ r1.task_id = r2.task_id
    /\ r1.phase = r2.phase
    /\ r1.signals = r2.signals
    /\ r1.sigma = r2.sigma
    /\ r1.decision = r2.decision
    /\ r1.explanation = r2.explanation

--------------------------------------------------------------------------
(* Properties of two calls in flight *)

\* C21 (as stated): the record a call writes holds the rounded signals that
\* this call extracted, whatever the other call in flight has done in
\* between (with the gate not skipped).
C21_RecordSignalsAreOwn ==
    [][\A t \in Threads :
          (~ablate_no_gate /\ threads[t].pc = "log" /\ threads'[t].pc = "done")
          => Last(sink').signals = RoundSignals(threads[t].signals)]_vars

\* C30: a call that has returned, whatever the other thread did while it
\* was in flight, returned the result and the decision that the same call
\* returns when it runs alone on the instance.
C30_ReturnsAsIfAlone ==
    \A t \in Threads :
        threads[t].pc = "done" =>
            threads[t].ret = gate_run(Value(threads[t].a), sinkOk).ret

\* C30 witness: both calls returned, one ASK and one APPLY, and the other
\* call had stored its signals before the ASK call wrote its record
C30_Witness ==
    /\ threads["A"].pc = "done" /\ threads["B"].pc = "done"
    /\ threads["A"].ret = Returned(None, ASK)
    /\ threads["B"].ret.decision = APPLY
    /\ Len(sink) = 2
    /\ sink[2].decision = "ask"
    /\ sink[2].signals.validator_pass_rate = 1000
\* C22: when the call overrides neither reversibility nor diff_risk, the
\* extracted pair (reversibility, diff_risk) is (1.0, 0.0) for a small
\* candidate and (0.5, 0.3) otherwise; a str is small iff its length is
\* below 1000, a dict iff the length of its rendering is below 1000 (1000
\* itself is not small), and a candidate of any other type is small.
C22_SizeDefaults ==
    (Called /\ GateRan /\ IsNone(Args.reversibility) /\ IsNone(Args.diff_risk))
    => LET c == Args.candidate
           small == \/ c.kind = "str" /\ c.len < 1000
                    \/ c.kind = "dict" /\ c.len < 1000
                    \/ c.kind \notin {"str", "dict"}
       IN  IF small
           THEN /\ last_signals.reversibility = One
                /\ last_signals.diff_risk = 0
           ELSE /\ 2 * last_signals.reversibility = One
                /\ 10 * last_signals.diff_risk = 3 * One

\* C22 witness: a dict whose rendering has exactly 1000 characters got the
\* pair (0.5, 0.3)
C22_Witness ==
    /\ Called /\ GateRan
    /\ IsNone(Args.reversibility) /\ IsNone(Args.diff_risk)
    /\ Args.candidate = [kind |-> "dict", len |-> 1000]
    /\ 2 * last_signals.reversibility = One
    /\ 10 * last_signals.diff_risk = 3 * One

RECURSIVE NamesInOrder(_)
\* the field names of the list, in its order, separated by ", "
NamesInOrder(mf) ==
    IF mf = <<>> THEN ""
    ELSE IF Len(mf) = 1 THEN mf[1][1]
    ELSE mf[1][1] \o ", " \o NamesInOrder(Tail(mf))

\* C23: called with more than 2 (field, format_hint) entries,
\* _generate_ask_message returns (it does not fail) one sentence that lists
\* all the field names in their given order.
C23_FallbackListsAllFields ==
    (~IsNone(ask_msg) /\ Len(Value(ask_msg).missing_fields) > 2)
    => Flatten(Value(ask_msg).message)
         = "I need " \o NamesInOrder(Value(ask_msg).missing_fields)
             \o " to proceed safely."

\* C23 witness: the call with plan, date, dose returned the sentence that
\* lists the three names
C23_Witness ==
    /\ ~IsNone(ask_msg)
    /\ Value(ask_msg).missing_fields = MissingList(3)
    /\ Flatten(Value(ask_msg).message)
         = "I need plan, date, dose to proceed safely."

\* the thresholds an advisory note names: the one formatted into it, or the
\* literal upper end of the range the generic ASK note spells out
NamedThresholds(lesson) ==
    IF ~IsNone(lesson.threshold) THEN {Value(lesson.threshold)}
    ELSE IF Occurs(lesson.text, "[0.45, 0.6)") # {}
         THEN {(60 * SigmaOne) \div 100}
         ELSE {}

PhaseWord(phase) ==
    IF phase = "apply" THEN "APPLY" ELSE IF phase = "ask" THEN "ASK" ELSE "REFUSE"

\* C24: for a Task Context whose goal matches no domain keyword, the
\* advisory note of every audit record names the record's phase and the
\* threshold tau the instance was constructed with.
C24_GenericNoteNamesPhaseAndThreshold ==
    \A i \in 1..Len(sink) :
        sink[i].task_card.goal = {}
        => /\ Occurs(sink[i].playbook_lesson.text, PhaseWord(sink[i].phase)) # {}
           /\ threshold \in NamedThresholds(sink[i].playbook_lesson)

\* C25: reset() replaces the Task Context with the empty one (goal, rules,
\* facts, plan and trace empty) and changes nothing else: threshold,
\* task_id, sink and switches stay, no audit record is written; and every
\* evaluation, before a reset or after it, logs the task_id of the instance.
C25_ResetOnlyEmptiesTaskContext ==
    [][/\ op' = "reset" =>
            /\ task_card'.goal = {}
            /\ task_card'.rules = <<>>
            /\ task_card'.facts = <<>>
            /\ task_card'.plan = <<>>
            /\ task_card'.log = <<>>
            /\ UNCHANGED <<threshold, task_id, sink, sinkOk, environ,
                           ablate_no_preview, ablate_no_validators,
                           ablate_no_gate, SIGNAL_WEIGHTS, last_signals>>
       /\ Len(sink') > Len(sink) =>
            /\ Last(sink').task_id = task_id
            /\ \A i \in 1..Len(sink) : sink[i].task_id = Last(sink').task_id]_vars

\* C25 witness: an evaluation on the schema task, a reset, and an
\* evaluation that logged the empty Task Context under the same task_id
C25_Witness ==
    /\ Len(sink) = 2
    /\ sink[1].task_card.goal # {}
    /\ sink[2].task_card.goal = {}
    /\ sink[2].task_card.rules = <<>>
    /\ sink[1].task_id = sink[2].task_id
    /\ Len(task_card.log) = 1

\* C26: run_baseline returns without raising, 'applied' is true iff
\* apply_fn did not raise, whatever Sigma and the threshold are,
\* violations_count is the number of validators that return a false value
\* or raise, and the call writes no audit record and no trace entry and
\* computes no Sigma.
C26_BaselineAlwaysApplies ==
    [][(IsNone(baseline_call) /\ ~IsNone(baseline_call')) =>
          LET b == Value(baseline_call')
              vs == IF IsNone(b.validators) THEN <<>> ELSE Value(b.validators)
          IN  /\ ~IsNone(baseline')
              /\ Value(baseline').applied <=> (b.apply_fn = "ok")
              /\ Value(baseline').violations_count =
                    Cardinality({i \in 1..Len(vs) :
                                    vs[i].outcome \in {"fail", "raise"}})
              /\ UNCHANGED <<sink, task_card, last_sigma, last_signals, ret>>]_vars

\* C26 witness: after an evaluation that did not return APPLY and wrote its
\* record, run_baseline applied the candidate and counted one failing and
\* one raising validator among three, adding no record and no trace entry
C26_Witness ==
    /\ ~IsNone(baseline_call)
    /\ ~IsNone(baseline)
    /\ Value(baseline).applied
    /\ Value(baseline).violations_count = 2
    /\ Value(baseline_call).validators
          = Some(<<[outcome |-> "fail", safety_name |-> TRUE],
                   [outcome |-> "pass", safety_name |-> FALSE],
                   [outcome |-> "raise", safety_name |-> FALSE]>>)
    /\ Called /\ ret.decision # APPLY
    /\ Len(sink) = 1
    /\ Len(task_card.log) = 1

\* C27: the report's ask-resolved rate over the audit stream is the
\* fraction of the ASK records for which the stream holds an APPLY record
\* with the same task_id (0 when there is no ASK record).
C27_AskResolvedRateByTaskId ==
    LET asks == {i \in 1..Len(sink) : sink[i].phase = "ask"}
        resolved == {i \in asks :
                        \E j \in 1..Len(sink) :
                            /\ sink[j].phase = "apply"
                            /\ sink[j].task_id = sink[i].task_id}
        rate == calculate_metrics(sink).ask_resolved_rate
    IN  IF asks = {} THEN rate.num = 0
        ELSE rate.num * Cardinality(asks) = Cardinality(resolved) * rate.den

\* C28: in an evaluation with skip_gate off, when all six signals are in
\* [0, 1] Sigma is at most 0.85, so an instance with tau > 0.85 does not
\* return APPLY; and the extractor passes every override on as given,
\* neither clamped nor rejected, while Sigma itself never exceeds 1.0.
C28_UnitSignalsBoundSigma ==
    (Called /\ GateRan) =>
        /\ (\A n \in SignalNames : 0 <= last_signals[n] /\ last_signals[n] <= One)
              => /\ 100 * SigmaOfCall <= 85 * SigmaOne
                 /\ 100 * threshold > 85 * SigmaOne => ret.decision # APPLY
        /\ \A n \in OverrideNames :
              ~IsNone(Args[n]) => last_signals[n] = Value(Args[n])
        /\ ret.status = "returned"
        /\ SigmaOfCall <= SigmaOne

\* C28 witness: at tau = 0.9 an uncertainty_margin override of 3.0 was
\* taken as given, Sigma was clamped to 1.0 and the call returned APPLY
C28_Witness ==
    /\ Called /\ GateRan
    /\ 100 * threshold = 90 * SigmaOne
    /\ Args.uncertainty_margin = Some(3 * One)
    /\ last_signals.uncertainty_margin = 3 * One
    /\ SigmaOfCall = SigmaOne
    /\ ret.decision = APPLY

\* tau in thousandths, for a threshold with at most three decimals
TauThousandths == RoundSigma(threshold)

\* C29 as stated: in every audit record written with skip_gate off, a
\* record with phase 'apply' has logged sigma >= tau and a record with
\* phase 'ask' has 0.45 <= logged sigma < tau.
C29_LoggedSigmaAgreesWithPhase ==
    \A i \in 1..Len(sink) :
        ~ablate_no_gate =>
            /\ sink[i].phase = "apply" => sink[i].sigma >= TauThousandths
            /\ sink[i].phase = "ask" =>
                  450 <= sink[i].sigma /\ sink[i].sigma < TauThousandths

\* C29 amended: for a threshold with at most three decimals, a record with
\* phase 'apply' has logged sigma >= tau and a record with phase 'ask' has
\* 0.45 <= logged sigma <= tau; the logged sigma of an ASK record equals
\* tau only when Sigma, which is strictly below tau, rounds up to it.
C29_LoggedSigmaWithinRounding ==
    \A i \in 1..Len(sink) :
        ~ablate_no_gate =>
            /\ sink[i].phase = "apply" => sink[i].sigma >= TauThousandths
            /\ sink[i].phase = "ask" =>
                  /\ 450 <= sink[i].sigma /\ sink[i].sigma <= TauThousandths
                  /\ GateRan /\ AskLow <= SigmaOfCall /\ SigmaOfCall < threshold
                  /\ sink[i].sigma = RoundSigma(SigmaOfCall)

\* C29 witness: at tau = 0.6 an ASK record with logged sigma 0.600, written
\* for a Sigma of 0.5996
C29_Witness ==
    /\ ~ablate_no_gate /\ GateRan
    /\ Len(sink) = 1
    /\ sink[1].phase = "ask"
    /\ sink[1].sigma = 600
    /\ TauThousandths = 600
    /\ SigmaOfCall = 5996 * (SigmaOne \div 10000)
    /\ ret.decision = ASK

==========================================================================
